---- MODULE Spec2Model ----
(***************************************************************************)
(* Model of realm::js::Results (src/js_results.hpp): the host binding of   *)
(* a query-results collection.  The binding's handlers (length, index      *)
(* access, snapshot, filtered, sorted) are translated from the header; the *)
(* results engine, the table, the predicate parser and the query builder   *)
(* it calls into are modelled from the specification of their contracts.   *)
(***************************************************************************)
EXTENDS Integers, Sequences, FiniteSets, TLC

\* table    the rows of the object type's table, by row key, in table order
\* vals     the column values of every row in the table
\* nextRow  the key the next inserted row gets
\* results  the Results instances the host holds, by handle
\* made     for each handle, the call that returned it (history)
\* ret      what the last host call returned or threw
VARIABLES table, vals, nextRow, results, made, ret

vars == <<table, vals, nextRow, results, made, ret>>

(* ------------------------------ bounds --------------------------------- *)

\* Rows ever inserted into the table by write transactions.
MaxRows == 2

\* Rows of a table that is populated before the host queries it.
MaxTableRows == 3

\* Results instances alive at once.
MaxResults == 3

(* --------------------------- schema and data --------------------------- *)

\* The active schema: one object type, whose properties are listed in
\* table-column order.
ObjectTypes == {"Person"}

Properties == <<"name", "city">>

\* Column values; StrOrd is the collation order of the string column type.
Values == {"a", "b"}

StrOrd(s) == IF s = "a" THEN 1 ELSE 2

RowIds(tbl) == {tbl[i] : i \in DOMAIN tbl}

\* ObjectSchema::property_for_name: the property's table column, 0 for none.
property_for_name(prop_name) ==
    IF \E c \in DOMAIN Properties : Properties[c] = prop_name
    THEN CHOOSE c \in DOMAIN Properties : Properties[c] = prop_name
    ELSE 0

(* ------------------------- predicate and query ------------------------- *)

\* parser::parse: predicate text (a token sequence) to a predicate, a list
\* of comparisons joined by AND; <<>> stands for a syntax error.
RECURSIVE parse(_)
parse(tokens) ==
    IF Len(tokens) < 3 \/ tokens[2] # "==" \/ tokens[1] \in {"==", "AND"}
       \/ tokens[3] \in {"==", "AND"}
    THEN <<>>
    ELSE LET atom == [prop |-> tokens[1], val |-> tokens[3]]
         IN  IF Len(tokens) = 3 THEN <<atom>>
             ELSE IF tokens[4] # "AND" THEN <<>>
             ELSE LET rest == parse(SubSeq(tokens, 5, Len(tokens)))
                  IN  IF rest = <<>> THEN <<>> ELSE <<atom>> \o rest

\* query_builder::ArgumentConverter: the literal of a comparison, a
\* positional placeholder being replaced by the bind argument.
ConvertArgument(val, args) ==
    IF val = "$0" THEN (IF Len(args) >= 1 THEN args[1].str ELSE "?") ELSE val

\* query_builder::apply_predicate: conjoins the predicate onto the query.
apply_predicate(query, predicate, args) ==
    IF \E i \in DOMAIN predicate : property_for_name(predicate[i].prop) = 0
    THEN [status |-> "SchemaError", query |-> query]
    ELSE IF \E i \in DOMAIN predicate :
                ConvertArgument(predicate[i].val, args) \notin Values
    THEN [status |-> "ArgumentError", query |-> query]
    ELSE [status |-> "ok",
          query |-> Append(query,
                      [i \in DOMAIN predicate |->
                         [column |-> property_for_name(predicate[i].prop),
                          val |-> ConvertArgument(predicate[i].val, args)]])]

\* A row satisfies a query when it satisfies every conjoined predicate.
Matches(query, row) ==
    \A i \in DOMAIN query : \A j \in DOMAIN query[i] :
        row[Properties[query[i][j].column]] = query[i][j].val

(* ------------------------------ ordering ------------------------------- *)

\* Three-way comparison of two rows under a sort descriptor, from key k on.
RECURSIVE Compare(_, _, _, _, _)
Compare(a, b, ordering, k, vls) ==
    IF k > Len(ordering.columns) THEN 0
    ELSE LET ka == StrOrd(vls[a][Properties[ordering.columns[k]]])
             kb == StrOrd(vls[b][Properties[ordering.columns[k]]])
         IN  IF ka = kb THEN Compare(a, b, ordering, k + 1, vls)
             ELSE IF (ka < kb) = ordering.ascending[k] THEN -1 ELSE 1

\* Stable insertion of x into an already sorted sequence.
InsertSorted(s, x, ordering, vls) ==
    LET k == Cardinality({i \in DOMAIN s : Compare(s[i], x, ordering, 1, vls) <= 0})
    IN  SubSeq(s, 1, k) \o <<x>> \o SubSeq(s, k + 1, Len(s))

RECURSIVE Sort(_, _, _)
Sort(rows, ordering, vls) ==
    IF rows = <<>> THEN <<>>
    ELSE InsertSorted(Sort(SubSeq(rows, 1, Len(rows) - 1), ordering, vls),
                      rows[Len(rows)], ordering, vls)

NoSort == [columns |-> <<>>, ascending |-> <<>>]

(* --------------------------- results engine ---------------------------- *)

\* The rows a query with an ordering selects from the current table.
Evaluate(query, ordering, tbl, vls) ==
    LET match(id) == Matches(query, vls[id])
    IN  Sort(SelectSeq(tbl, match), ordering, vls)

\* The row sequence of a Results: re-evaluated when live, frozen otherwise.
Rows(r, tbl, vls) ==
    IF r.live THEN Evaluate(r.query, r.ordering, tbl, vls) ELSE r.tv

\* realm::Results::set_live
set_live(r, live, tbl, vls) ==
    IF live THEN [r EXCEPT !.live = TRUE, !.tv = <<>>]
    ELSE [r EXCEPT !.live = FALSE, !.tv = Rows(r, tbl, vls)]

\* realm::Results::size
Results_size(r, tbl, vls) == Len(Rows(r, tbl, vls))

\* realm::Results::get
Results_get(r, index, tbl, vls) ==
    LET rows == Rows(r, tbl, vls)
    IN  IF index >= Len(rows)
        THEN [status |-> "IndexOutOfRange", row |-> 0, attached |-> FALSE]
        ELSE [status |-> "ok", row |-> rows[index + 1],
              attached |-> rows[index + 1] \in RowIds(tbl)]

\* realm::Results(realm, object_schema, query, sort): live by default.
NewResults(query, ordering) ==
    [query |-> query, ordering |-> ordering, live |-> TRUE, tv |-> <<>>]

NoResults == NewResults(<<>>, NoSort)

(* ---------------------------- return values ---------------------------- *)

Returned(kind, num) == [status |-> "ok", kind |-> kind, num |-> num]

Thrown(error) == [status |-> error, kind |-> "none", num |-> 0]

Made(obj) == [status |-> "ok", obj |-> obj]

Failed(error) == [status |-> error, obj |-> NoResults]

(* ------------------------------ host values ---------------------------- *)

Str(s) == [str |-> s]

Bool(b) == [bool |-> b]

Arr(a) == [arr |-> a]

Text(tokens) == [text |-> tokens]

\* Value::is_array
is_array(value) == "arr" \in DOMAIN value

\* Value::to_boolean: host truthiness.
to_boolean(value) == IF "bool" \in DOMAIN value THEN value.bool ELSE TRUE

(* ------------------------------- binding ------------------------------- *)

\* A copy that forgets to set the liveness asked for.
create_KeepLive(r, live, tbl, vls) == r

\* Results<T>::create(ctx, const realm::Results &, live)
create(r, live, tbl, vls) == set_live(r, live, tbl, vls)

\* A construction that does not look the type up in the schema.
create_from_type_NoSchemaCheck(type, live, tbl, vls) ==
    Made(set_live(NewResults(<<>>, NoSort), live, tbl, vls))

\* A construction that materialises the rows whatever liveness is asked.
create_from_type_Frozen(type, live, tbl, vls) ==
    IF type \notin ObjectTypes THEN Failed("TypeNotFound")
    ELSE Made(set_live(NewResults(<<>>, NoSort), FALSE, tbl, vls))

\* Results<T>::create(ctx, realm, type, live)
create_from_type(type, live, tbl, vls) ==
    IF type \notin ObjectTypes THEN Failed("TypeNotFound")
    ELSE Made(set_live(NewResults(<<>>, NoSort), live, tbl, vls))

\* Results<T>::create(ctx, realm, object_schema, query, live)
create_from_query(query, live, tbl, vls) ==
    set_live(NewResults(query, NoSort), live, tbl, vls)

\* A filter that starts from an empty query instead of the collection's.
create_filtered_FreshQuery(collection, argc, arguments, tbl, vls) ==
    LET predicate == parse(arguments[1].text)
        applied == apply_predicate(<<>>, predicate, SubSeq(arguments, 2, argc))
    IN  IF predicate = <<>> THEN Failed("PredicateSyntaxError")
        ELSE IF applied.status # "ok" THEN Failed(applied.status)
        ELSE Made(create_from_query(applied.query, TRUE, tbl, vls))

\* A filter whose result takes the liveness of the collection it came from.
create_filtered_InheritLive(collection, argc, arguments, tbl, vls) ==
    LET predicate == parse(arguments[1].text)
        applied == apply_predicate(collection.query, predicate,
                                   SubSeq(arguments, 2, argc))
    IN  IF predicate = <<>> THEN Failed("PredicateSyntaxError")
        ELSE IF applied.status # "ok" THEN Failed(applied.status)
        ELSE Made(create_from_query(applied.query, collection.live, tbl, vls))

\* Results<T>::create_filtered
create_filtered(collection, argc, arguments, tbl, vls) ==
    LET query_string == arguments[1].text
        query == collection.query
        args == SubSeq(arguments, 2, argc)
        predicate == parse(query_string)
        applied == apply_predicate(query, predicate, args)
    IN  IF predicate = <<>> THEN Failed("PredicateSyntaxError")
        ELSE IF applied.status # "ok" THEN Failed(applied.status)
        ELSE Made(create_from_query(applied.query, TRUE, tbl, vls))

\* A flag that is taken as the direction itself.
AscendingOfFlag_Identity(flag) == flag

\* The direction a sort flag of the host call stands for.
AscendingOfFlag(flag) == ~flag

\* Argument parsing that lets an empty descriptor array through.
SortArguments_AllowEmpty(argc, arguments) ==
    IF is_array(arguments[1])
    THEN LET js_prop_names == arguments[1].arr
             prop_count == Len(js_prop_names)
         IN  IF argc # 1
             THEN [status |-> "ArgumentError", prop_names |-> <<>>, ascending |-> <<>>]
             ELSE [status |-> "ok",
                   prop_names |-> [i \in 1..prop_count |->
                       IF is_array(js_prop_names[i])
                       THEN js_prop_names[i].arr[1].str
                       ELSE js_prop_names[i].str],
                   ascending |-> [i \in 1..prop_count |->
                       IF is_array(js_prop_names[i])
                       THEN AscendingOfFlag(js_prop_names[i].arr[2].bool)
                       ELSE TRUE]]
    ELSE IF argc \notin {1, 2}
         THEN [status |-> "ArgumentError", prop_names |-> <<>>, ascending |-> <<>>]
         ELSE [status |-> "ok",
               prop_names |-> <<arguments[1].str>>,
               ascending |-> <<IF argc = 1 THEN TRUE
                               ELSE AscendingOfFlag(to_boolean(arguments[2]))>>]

\* create_sorted, first half: the property names and directions asked for.
SortArguments(argc, arguments) ==
    IF is_array(arguments[1])
    THEN LET js_prop_names == arguments[1].arr
             prop_count == Len(js_prop_names)
         IN  IF argc # 1 \/ prop_count = 0
             THEN [status |-> "ArgumentError", prop_names |-> <<>>, ascending |-> <<>>]
             ELSE [status |-> "ok",
                   prop_names |-> [i \in 1..prop_count |->
                       IF is_array(js_prop_names[i])
                       THEN js_prop_names[i].arr[1].str
                       ELSE js_prop_names[i].str],
                   ascending |-> [i \in 1..prop_count |->
                       IF is_array(js_prop_names[i])
                       THEN AscendingOfFlag(js_prop_names[i].arr[2].bool)
                       ELSE TRUE]]
    ELSE IF argc \notin {1, 2}
         THEN [status |-> "ArgumentError", prop_names |-> <<>>, ascending |-> <<>>]
         ELSE [status |-> "ok",
               prop_names |-> <<arguments[1].str>>,
               ascending |-> <<IF argc = 1 THEN TRUE
                               ELSE AscendingOfFlag(to_boolean(arguments[2]))>>]

\* A sort that reverses the directions asked for when the collection is
\* already sorted on the same columns.
create_sorted_Toggle(collection, argc, arguments) ==
    LET sort == SortArguments(argc, arguments)
        columns == [i \in DOMAIN sort.prop_names |->
                       property_for_name(sort.prop_names[i])]
    IN  IF sort.status # "ok" THEN Failed(sort.status)
        ELSE IF \E i \in DOMAIN columns : columns[i] = 0 THEN Failed("SchemaError")
        ELSE Made(NewResults(collection.query,
                 [columns |-> columns,
                  ascending |-> IF collection.ordering.columns = columns
                                THEN [i \in DOMAIN columns |-> ~collection.ordering.ascending[i]]
                                ELSE sort.ascending]))

\* A sort that looks up only the first property name in the schema.
create_sorted_CheckFirstOnly(collection, argc, arguments) ==
    LET sort == SortArguments(argc, arguments)
        columns == [i \in DOMAIN sort.prop_names |->
                       property_for_name(sort.prop_names[i])]
    IN  IF sort.status # "ok" THEN Failed(sort.status)
        ELSE IF columns[1] = 0 THEN Failed("SchemaError")
        ELSE Made(NewResults(collection.query,
                             [columns |-> columns, ascending |-> sort.ascending]))

\* A sort over every row of the table instead of the collection's query.
create_sorted_AllRows(collection, argc, arguments) ==
    LET sort == SortArguments(argc, arguments)
        columns == [i \in DOMAIN sort.prop_names |->
                       property_for_name(sort.prop_names[i])]
    IN  IF sort.status # "ok" THEN Failed(sort.status)
        ELSE IF \E i \in DOMAIN columns : columns[i] = 0 THEN Failed("SchemaError")
        ELSE Made(NewResults(<<>>,
                             [columns |-> columns, ascending |-> sort.ascending]))

\* A sort that keeps the collection's keys after the new ones.
create_sorted_Refine(collection, argc, arguments) ==
    LET sort == SortArguments(argc, arguments)
        columns == [i \in DOMAIN sort.prop_names |->
                       property_for_name(sort.prop_names[i])]
    IN  IF sort.status # "ok" THEN Failed(sort.status)
        ELSE IF \E i \in DOMAIN columns : columns[i] = 0 THEN Failed("SchemaError")
        ELSE Made(NewResults(collection.query,
                             [columns |-> columns \o collection.ordering.columns,
                              ascending |-> sort.ascending
                                            \o collection.ordering.ascending]))

\* A sort that resolves only the first property asked for.
create_sorted_FirstKeyOnly(collection, argc, arguments) ==
    LET sort == SortArguments(argc, arguments)
        columns == [i \in DOMAIN sort.prop_names |->
                       property_for_name(sort.prop_names[i])]
    IN  IF sort.status # "ok" THEN Failed(sort.status)
        ELSE IF \E i \in DOMAIN columns : columns[i] = 0 THEN Failed("SchemaError")
        ELSE Made(NewResults(collection.query,
                             [columns |-> SubSeq(columns, 1, 1),
                              ascending |-> SubSeq(sort.ascending, 1, 1)]))

\* Results<T>::create_sorted
create_sorted(collection, argc, arguments) ==
    LET sort == SortArguments(argc, arguments)
        columns == [i \in DOMAIN sort.prop_names |->
                       property_for_name(sort.prop_names[i])]
    IN  IF sort.status # "ok" THEN Failed(sort.status)
        ELSE IF \E i \in DOMAIN columns : columns[i] = 0 THEN Failed("SchemaError")
        ELSE Made(NewResults(collection.query,
                             [columns |-> columns, ascending |-> sort.ascending]))

\* A length that is read once, when the rows were materialised.
GetLength_Frozen(r, tbl, vls) == Returned("length", Len(r.tv))

\* Results<T>::GetLength
GetLength(r, tbl, vls) == Returned("length", Results_size(r, tbl, vls))

\* An index access without the attachment check.
GetIndex_NoAttachCheck(r, index, tbl, vls) ==
    LET row == Results_get(r, index, tbl, vls)
    IN  IF row.status # "ok" THEN Thrown(row.status)
        ELSE Returned("row", row.row)

\* An index access that turns the engine's range error into null.
GetIndex_NullOutOfRange(r, index, tbl, vls) ==
    LET row == Results_get(r, index, tbl, vls)
    IN  IF row.status # "ok" \/ ~row.attached THEN Returned("null", 0)
        ELSE Returned("row", row.row)

\* Results<T>::GetIndex
GetIndex(r, index, tbl, vls) ==
    LET row == Results_get(r, index, tbl, vls)
    IN  IF row.status # "ok" THEN Thrown(row.status)
        ELSE IF ~row.attached THEN Returned("null", 0)
        ELSE Returned("row", row.row)

\* A snapshot rebuilt from the receiver's query instead of copied from it.
StaticResults_Requery(this, argc, tbl, vls) ==
    IF argc # 0 THEN Failed("ArgumentError")
    ELSE Made(create(NewResults(this.query, this.ordering), FALSE, tbl, vls))

\* Results<T>::StaticResults
StaticResults(this, argc, tbl, vls) ==
    IF argc # 0 THEN Failed("ArgumentError")
    ELSE Made(create(this, FALSE, tbl, vls))

\* Results<T>::Filtered
Filtered(this, argc, arguments, tbl, vls) ==
    IF argc < 1 THEN Failed("ArgumentError")
    ELSE create_filtered(this, argc, arguments, tbl, vls)

\* Results<T>::Sorted
Sorted(this, argc, arguments) ==
    IF argc \notin {1, 2} THEN Failed("ArgumentError")
    ELSE create_sorted(this, argc, arguments)

(* ------------------------------- inputs -------------------------------- *)

TypeNames == {"Person", "DoesNotExist"}

FilterCalls ==
    { <<>>,
      <<Text(<<"name", "==", "$0">>), Str("a")>>,
      <<Text(<<"bogus", "==", "a">>)>>,
      <<Text(<<"name", "==">>)>> }

SortCalls ==
    { <<>>,
      <<Str("name")>>,
      <<Str("name"), Bool(TRUE)>>,
      <<Arr(<<Str("name"), Arr(<<Str("city"), Bool(TRUE)>>)>>)>>,
      <<Arr(<<>>)>>,
      <<Arr(<<Str("city")>>), Bool(TRUE)>>,
      <<Str("bogus")>> }

SnapshotCalls == { <<>>, <<Bool(TRUE)>> }

\* The calls made on a table that is not written to meanwhile.
QueryFilterCalls == FilterCalls \cup { <<Text(<<"city", "==", "b">>)>> }

Handles == DOMAIN results

\* Every index up to the largest size a Results can have had, and one past it.
Indexes == 0..(nextRow - 1)

(* ------------------------------- actions ------------------------------- *)

Init ==
    /\ table = <<>>
    /\ vals = <<>>
    /\ nextRow = 1
    /\ results = <<>>
    /\ made = <<>>
    /\ ret = Returned("none", 0)

\* The outcome of a call that returns a Results: the new instance gets the
\* next handle, a throwing call leaves the host's instances as they were.
Return(outcome, call) ==
    IF outcome.status = "ok"
    THEN /\ results' = Append(results, outcome.obj)
         /\ made' = Append(made, call)
         /\ ret' = Returned("results", Len(results) + 1)
    ELSE /\ UNCHANGED <<results, made>>
         /\ ret' = Thrown(outcome.status)

\* The host constructs the Results of an object type.
CallCreate(type, live) ==
    /\ Len(results) < MaxResults
    /\ Return(create_from_type(type, live, table, vals),
              IF live THEN "create" ELSE "create_static")
    /\ UNCHANGED <<table, vals, nextRow>>

\* results.snapshot(...)
CallSnapshot(h, arguments) ==
    /\ Len(results) < MaxResults
    /\ Return(StaticResults(results[h], Len(arguments), table, vals), "snapshot")
    /\ UNCHANGED <<table, vals, nextRow>>

\* A filtered() that conjoins the predicate onto the receiver's own query.
CallFiltered_InPlace(h, arguments) ==
    LET outcome == Filtered(results[h], Len(arguments), arguments, table, vals)
    IN  /\ Len(results) < MaxResults
        /\ IF outcome.status = "ok"
           THEN /\ results' = Append([results EXCEPT ![h].query = outcome.obj.query],
                                     outcome.obj)
                /\ made' = Append(made, "filtered")
                /\ ret' = Returned("results", Len(results) + 1)
           ELSE /\ UNCHANGED <<results, made>>
                /\ ret' = Thrown(outcome.status)
        /\ UNCHANGED <<table, vals, nextRow>>

\* results.filtered(...)
CallFiltered(h, arguments) ==
    /\ Len(results) < MaxResults
    /\ Return(Filtered(results[h], Len(arguments), arguments, table, vals), "filtered")
    /\ UNCHANGED <<table, vals, nextRow>>

\* results.sorted(...)
CallSorted(h, arguments) ==
    /\ Len(results) < MaxResults
    /\ Return(Sorted(results[h], Len(arguments), arguments), "sorted")
    /\ UNCHANGED <<table, vals, nextRow>>

\* results.length
CallLength(h) ==
    /\ ret' = GetLength(results[h], table, vals)
    /\ UNCHANGED <<table, vals, nextRow, results, made>>

\* results[index]
CallIndex(h, index) ==
    /\ ret' = GetIndex(results[h], index, table, vals)
    /\ UNCHANGED <<table, vals, nextRow, results, made>>

\* A write transaction adds a row at the end of the table.
InsertRow(name, city) ==
    /\ nextRow <= MaxRows
    /\ table' = Append(table, nextRow)
    /\ vals' = Append(vals, [name |-> name, city |-> city])
    /\ nextRow' = nextRow + 1
    /\ ret' = Returned("none", 0)
    /\ UNCHANGED <<results, made>>

\* A write transaction deletes a row; the rows after it keep their order.
DeleteRow(id) ==
    /\ id \in RowIds(table)
    /\ LET keep(x) == x # id IN table' = SelectSeq(table, keep)
    /\ ret' = Returned("none", 0)
    /\ UNCHANGED <<vals, nextRow, results, made>>

\* A write transaction changes one column of a row.
UpdateRow(id, prop, val) ==
    /\ id \in RowIds(table)
    /\ vals[id][prop] # val
    /\ vals' = [vals EXCEPT ![id][prop] = val]
    /\ ret' = Returned("none", 0)
    /\ UNCHANGED <<table, nextRow, results, made>>

Next ==
    \/ \E type \in TypeNames, live \in BOOLEAN : CallCreate(type, live)
    \/ \E h \in Handles, arguments \in SnapshotCalls : CallSnapshot(h, arguments)
    \/ \E h \in Handles, arguments \in FilterCalls : CallFiltered(h, arguments)
    \/ \E h \in Handles, arguments \in SortCalls : CallSorted(h, arguments)
    \/ \E h \in Handles : CallLength(h)
    \/ \E h \in Handles, index \in Indexes : CallIndex(h, index)
    \/ \E name \in Values, city \in Values : InsertRow(name, city)
    \/ \E id \in RowIds(table) : DeleteRow(id)
    \/ \E id \in RowIds(table), prop \in {"name", "city"}, val \in Values :
          UpdateRow(id, prop, val)

Spec == Init /\ [][Next]_vars

\* The host querying a table that was populated beforehand and is not
\* written to meanwhile: the derivations and reads over every small table.
InitQuery ==
    /\ \E n \in 0..MaxTableRows :
          /\ table = [i \in 1..n |-> i]
          /\ vals \in [1..n -> [name : Values, city : Values]]
          /\ nextRow = n + 1
    /\ results = <<>>
    /\ made = <<>>
    /\ ret = Returned("none", 0)

NextQuery ==
    \/ \E type \in TypeNames, live \in BOOLEAN : CallCreate(type, live)
    \/ \E h \in Handles, arguments \in QueryFilterCalls : CallFiltered(h, arguments)
    \/ \E h \in Handles, arguments \in SortCalls : CallSorted(h, arguments)

SpecQuery == InitQuery /\ [][NextQuery]_vars

(* ------------------------ what the host observes ----------------------- *)

\* r.length, and r[0] .. r[length - 1], as the host reads them.
Size(r, tbl, vls) == GetLength(r, tbl, vls).num

View(r, tbl, vls) == [i \in 1..Size(r, tbl, vls) |-> GetIndex(r, i - 1, tbl, vls)]

Absent == Returned("null", 0)

Deleted(id) == id \notin RowIds(table)

(* ------------------------------- claims -------------------------------- *)

\* C1: snapshot stability under deletion.  Whenever rows are deleted, every
\* Results returned by snapshot() keeps its size, reads absent at exactly
\* the positions whose row has just been deleted (and at those that read
\* absent before), and reads the same row as before at every other position.
SnapshotStableUnderDeletion ==
    [][\A h \in Handles :
         (made[h] = "snapshot" /\ RowIds(table') # RowIds(table)
          /\ RowIds(table') \subseteq RowIds(table))
         => /\ Size(results'[h], table', vals') = Size(results[h], table, vals)
            /\ \A i \in 0..(Size(results[h], table, vals) - 1) :
                 LET before == GetIndex(results[h], i, table, vals)
                     after == GetIndex(results'[h], i, table', vals')
                 IN  after = IF before.kind = "row" /\ before.num \notin RowIds(table')
                             THEN Absent ELSE before]_vars

\* C1 witness: a snapshot of two rows, one of them deleted since, the other
\* still in the table, and an index access that has returned absent.
SnapshotWithDeletedRow ==
    \E h \in Handles :
        /\ made[h] = "snapshot"
        /\ Len(results[h].tv) >= 2
        /\ \E i, j \in DOMAIN results[h].tv :
              Deleted(results[h].tv[i]) /\ ~Deleted(results[h].tv[j])
        /\ ret = Absent

\* C2: snapshot immutability.  In every step (inserts, updates and all
\* else) a Results returned by snapshot() keeps its size, and each of its
\* positions reads what it read before or reads absent.
SnapshotImmutable ==
    [][\A h \in Handles :
         made[h] = "snapshot"
         => /\ h \in DOMAIN results'
            /\ Size(results'[h], table', vals') = Size(results[h], table, vals)
            /\ \A i \in 0..(Size(results[h], table, vals) - 1) :
                 LET before == GetIndex(results[h], i, table, vals)
                     after == GetIndex(results'[h], i, table', vals')
                 IN  after = before \/ (after = Absent /\ RowIds(table') # RowIds(table))]_vars

\* C2 witness: a snapshot of a filtered Results none of whose rows was
\* deleted, holding a row that has stopped matching while the table has
\* gained a matching row the snapshot does not hold.
SnapshotOutdated ==
    \E h \in Handles :
        /\ made[h] = "snapshot"
        /\ results[h].query # <<>>
        /\ \A i \in DOMAIN results[h].tv : ~Deleted(results[h].tv[i])
        /\ \E i \in DOMAIN results[h].tv :
              ~Matches(results[h].query, vals[results[h].tv[i]])
        /\ \E id \in RowIds(table) :
              /\ Matches(results[h].query, vals[id])
              /\ \A i \in DOMAIN results[h].tv : results[h].tv[i] # id

\* C3: live responsiveness.  When a row is inserted, every live Results is
\* the same instance as before and its size grows by one if the row matches
\* its predicate and stays the same if it does not.
LiveResponsive ==
    [][Len(table') = Len(table) + 1
       => \A h \in Handles :
            results[h].live
            => /\ results'[h] = results[h]
               /\ Size(results'[h], table', vals')
                  = Size(results[h], table, vals)
                    + (IF Matches(results[h].query, vals'[table'[Len(table')]])
                       THEN 1 ELSE 0)]_vars

\* C3 witness: a live filtered Results over a table with one matching and
\* one other row, whose length has been read as 1.
LiveCountsMatchingRow ==
    \E h \in Handles :
        /\ results[h].live
        /\ results[h].query # <<>>
        /\ Len(table) = 2
        /\ Cardinality({id \in RowIds(table) : Matches(results[h].query, vals[id])}) = 1
        /\ ret = Returned("length", 1)

\* C4: liveness is one-way.  No step makes a non-live instance live or
\* changes an existing instance; filtered and sorted return live instances
\* and snapshot a non-live one; and snapshot() returns a new instance that
\* reads as its receiver does, position by position, also when the
\* receiver is itself a snapshot.
LivenessOneWay ==
    [][/\ \A h \in Handles :
            /\ h \in DOMAIN results'
            /\ ~results[h].live => ~results'[h].live
       /\ Len(results') > Len(results)
            => LET n == Len(results')
               IN  /\ made'[n] \in {"filtered", "sorted"} => results'[n].live
                   /\ made'[n] = "snapshot" => ~results'[n].live
       /\ \A h \in Handles :
            CallSnapshot(h, <<>>)
            => LET n == Len(results')
               IN  /\ n = Len(results) + 1
                   /\ ~results'[n].live
                   /\ results'[h] = results[h]
                   /\ View(results'[n], table', vals') = View(results[h], table, vals)]_vars

\* C4 witness: a snapshot taken of a snapshot that holds a deleted row.
SnapshotOfSnapshot ==
    \E h1, h2 \in Handles :
        /\ h1 < h2
        /\ made[h1] = "snapshot" /\ made[h2] = "snapshot"
        /\ results[h2].tv = results[h1].tv
        /\ \E i \in DOMAIN results[h2].tv : Deleted(results[h2].tv[i])

(* ------------------- derivations, as the claims use them --------------- *)

PropertyNames == {"name", "city"}

\* Every comparison a predicate text can make, and the conjunction of two.
AtomTexts == {<<p, "==", v>> : p \in PropertyNames, v \in Values}

AndText(A, B) == A \o <<"AND">> \o B

Satisfies(id, A) == vals[id][A[1]] = A[3]

\* Every descriptor list of one or two (property, flag) pairs.
DescriptorLists ==
    UNION {[1..n -> PropertyNames \X BOOLEAN] : n \in 1..2}

ListCall(d) == <<Arr([k \in DOMAIN d |-> Arr(<<Str(d[k][1]), Bool(d[k][2])>>)])>>

\* r.filtered(A) and r.sorted(...) for calls that succeed.
FilteredBy(r, A) == Filtered(r, 1, <<Text(A)>>, table, vals).obj

SortedBy(r, arguments) == Sorted(r, Len(arguments), arguments).obj

\* The row keys at the positions of r (no row of the table being deleted
\* between the derivation and the read), and the set of them.
Ids(r) == Rows(r, table, vals)

Members(r) == {Ids(r)[i] : i \in DOMAIN Ids(r)}

KeyOf(id, p) == StrOrd(vals[id][p])

AscendingBy(s, p) == \A i, j \in DOMAIN s : i < j => KeyOf(s[i], p) <= KeyOf(s[j], p)

DescendingBy(s, p) == \A i, j \in DOMAIN s : i < j => KeyOf(s[i], p) >= KeyOf(s[j], p)

\* The table of the specification's example: names b, a, b.
ExampleTable ==
    /\ table = <<1, 2, 3>>
    /\ vals[1].name = "b" /\ vals[2].name = "a" /\ vals[3].name = "b"

\* C5: filtering and sorting commute: r.sorted(d).filtered(A) and
\* r.filtered(A).sorted(d) read the same row at every position.
FilterSortCommute ==
    \A h \in Handles : \A A \in AtomTexts : \A d \in DescriptorLists :
        Ids(FilteredBy(SortedBy(results[h], ListCall(d)), A))
        = Ids(SortedBy(FilteredBy(results[h], A), ListCall(d)))

\* The set of the elements of a sequence.
Range(s) == {s[i] : i \in DOMAIN s}

\* Pairs of predicates (A, B): the same twice, two on one property that no
\* row satisfies together, and two on different properties.
PredicatePairs ==
    {<<"name", "==", "a">>, <<"city", "==", "b">>}
    \X {<<"name", "==", "a">>, <<"name", "==", "b">>, <<"city", "==", "b">>}

\* C6 as stated: filter composability for every receiver:
\* r.filtered(A).filtered(B) has the membership of r.filtered(A AND B), the
\* rows of the table that satisfy r's query, A and B, and filtered never
\* widens the membership of its receiver, whatever the receiver.
FilterNeverWidens ==
    \A h \in Handles : \A AB \in PredicatePairs :
        LET r == results[h]
            A == AB[1]
            B == AB[2]
            fa == FilteredBy(r, A)
            ia == Ids(fa)
            iab == Ids(FilteredBy(fa, B))
            iand == Ids(FilteredBy(r, AndText(A, B)))
            ir == Ids(r)
        IN  /\ Range(iab) = Range(iand)
            /\ Range(iab) = {id \in RowIds(table) :
                                Matches(r.query, vals[id])
                                /\ Satisfies(id, A) /\ Satisfies(id, B)}
            /\ Range(iab) \subseteq Range(ia)
            /\ Range(ia) \subseteq Range(ir)

\* C6: filter composability: r.filtered(A).filtered(B) has the membership of
\* r.filtered(A AND B), which is the rows of the table that satisfy r's
\* query, A and B; r.filtered(A) holds the rows of the table that satisfy
\* r's query and A, so it never widens the membership of a live receiver.
FilterComposes ==
    \A h \in Handles : \A AB \in PredicatePairs :
        LET r == results[h]
            A == AB[1]
            B == AB[2]
            fa == FilteredBy(r, A)
            ia == Ids(fa)
            iab == Ids(FilteredBy(fa, B))
            iand == Ids(FilteredBy(r, AndText(A, B)))
            ir == Ids(r)
        IN  /\ Range(iab) = Range(iand)
            /\ Range(iab) = {id \in RowIds(table) :
                                Matches(r.query, vals[id])
                                /\ Satisfies(id, A) /\ Satisfies(id, B)}
            /\ Range(iab) \subseteq Range(ia)
            /\ Range(ia) = {id \in RowIds(table) :
                               Matches(r.query, vals[id]) /\ Satisfies(id, A)}
            /\ r.live => Range(ia) \subseteq Range(ir)

\* C6 witness: a filtered Results derived from a snapshot holds a row that
\* was inserted after the snapshot was taken, which the snapshot lacks.
FilteredWiderThanSnapshot ==
    \E hs, hf \in Handles :
        /\ made[hs] = "snapshot" /\ ~results[hs].live
        /\ made[hf] = "filtered" /\ hs < hf
        /\ Len(results[hf].query) = Len(results[hs].query) + 1
        /\ \E id \in RowIds(table) :
              id \in Range(Ids(results[hf])) /\ id \notin Range(Ids(results[hs]))

\* A Results filtered twice, by two different predicates, over a
\* table with a row that passes both and a row that passes only the first.
FilteredTwice ==
    \E h \in Handles :
        /\ made[h] = "filtered"
        /\ Len(results[h].query) = 2
        /\ results[h].query[1] # results[h].query[2]
        /\ \E id \in RowIds(table) : Matches(results[h].query, vals[id])
        /\ \E id \in RowIds(table) :
              /\ Matches(<<results[h].query[1]>>, vals[id])
              /\ ~Matches(results[h].query, vals[id])

\* C7 as claimed: the flag means ascending: sorted(p, true) and the pair
\* (p, true) order by p ascending, false descending, no flag ascending, and
\* on the example table sorted("name", true) reads the ids 2, 1, 3.
SortFlagMeansAscending ==
    \A h \in Handles : \A p \in PropertyNames :
        LET r == results[h]
        IN  /\ AscendingBy(Ids(SortedBy(r, <<Str(p), Bool(TRUE)>>)), p)
            /\ DescendingBy(Ids(SortedBy(r, <<Str(p), Bool(FALSE)>>)), p)
            /\ AscendingBy(Ids(SortedBy(r, <<Str(p)>>)), p)
            /\ AscendingBy(Ids(SortedBy(r, ListCall(<<<<p, TRUE>>>>))), p)
            /\ DescendingBy(Ids(SortedBy(r, ListCall(<<<<p, FALSE>>>>))), p)
            /\ (ExampleTable /\ r.query = <<>>)
                 => Ids(SortedBy(r, <<Str("name"), Bool(TRUE)>>)) = <<2, 1, 3>>

\* C7 as amended: the flag means reverse: sorted(p, true) and the pair
\* (p, true) order by p descending, false ascending, no flag (and a bare
\* property name in a list) ascending, and on the example table
\* sorted("name", true) reads the ids 1, 3, 2.
SortFlagMeansReverse ==
    \A h \in Handles : \A p \in PropertyNames :
        LET r == results[h]
        IN  /\ DescendingBy(Ids(SortedBy(r, <<Str(p), Bool(TRUE)>>)), p)
            /\ AscendingBy(Ids(SortedBy(r, <<Str(p), Bool(FALSE)>>)), p)
            /\ AscendingBy(Ids(SortedBy(r, <<Str(p)>>)), p)
            /\ DescendingBy(Ids(SortedBy(r, ListCall(<<<<p, TRUE>>>>))), p)
            /\ AscendingBy(Ids(SortedBy(r, ListCall(<<<<p, FALSE>>>>))), p)
            /\ AscendingBy(Ids(SortedBy(r, <<Arr(<<Str(p)>>)>>)), p)
            /\ (ExampleTable /\ r.query = <<>>)
                 => Ids(SortedBy(r, <<Str("name"), Bool(TRUE)>>)) = <<1, 3, 2>>

\* C7 witness: over the example table, a Results returned by
\* sorted("name", true), which reads the ids 1, 3, 2.
ExampleSortedByName ==
    /\ ExampleTable
    /\ \E h \in Handles :
          /\ made[h] = "sorted"
          /\ results[h].query = <<>>
          /\ results[h].ordering = [columns |-> <<1>>, ascending |-> <<FALSE>>]
          /\ Ids(results[h]) = <<1, 3, 2>>

\* Row a comes strictly before row b under the descriptor list d, a flag of
\* true standing for descending: they differ first on a key that orders them.
Precedes(a, b, d) ==
    \E k \in DOMAIN d :
        /\ \A m \in 1..(k - 1) : KeyOf(a, d[m][1]) = KeyOf(b, d[m][1])
        /\ IF d[k][2] THEN KeyOf(a, d[k][1]) > KeyOf(b, d[k][1])
                      ELSE KeyOf(a, d[k][1]) < KeyOf(b, d[k][1])

Tied(a, b, d) == \A k \in DOMAIN d : KeyOf(a, d[k][1]) = KeyOf(b, d[k][1])

\* C8: multi-key stable sort: r.sorted(d) holds the rows of r ordered
\* lexicographically by the keys of d, each in its direction, and rows that
\* tie on every key are in table order.
MultiKeyStableSort ==
    \A h \in Handles : \A d \in DescriptorLists :
        LET s == Ids(SortedBy(results[h], ListCall(d)))
        IN  /\ results[h].live => Len(s) = Len(Ids(results[h]))
            /\ \A i, j \in DOMAIN s :
                 i < j => \/ Precedes(s[i], s[j], d)
                          \/ Tied(s[i], s[j], d) /\ s[i] < s[j]

\* C8 witness: a Results sorted by (name ascending, city descending) over
\* three rows of one name, two of which tie on the city as well, read in the
\* order 2, 1, 3.
SortedByTwoKeys ==
    \E h \in Handles :
        /\ made[h] = "sorted"
        /\ results[h].ordering = [columns |-> <<1, 2>>, ascending |-> <<TRUE, FALSE>>]
        /\ Len(table) = 3
        /\ vals[1] = vals[3] /\ vals[1].name = vals[2].name
        /\ vals[1].city = "a" /\ vals[2].city = "b"
        /\ Ids(results[h]) = <<2, 1, 3>>

\* C9: index access distinguishes invalid from absent: get(i) raises
\* IndexOutOfRange exactly when i is at or past the current size; below it,
\* it returns a row of the table, or absent, and absent only at a position
\* whose row has been deleted.
IndexInvalidOrAbsent ==
    \A h \in Handles : \A i \in 0..nextRow :
        LET r == results[h]
            g == GetIndex(r, i, table, vals)
            n == Size(r, table, vals)
        IN  /\ i >= n <=> g.status = "IndexOutOfRange"
            /\ i < n => (g.status = "ok" /\ g.kind \in {"row", "null"})
            /\ g.kind = "row" => (i < n /\ ~Deleted(g.num))
            /\ g.kind = "null" => (i < n /\ ~r.live /\ Deleted(r.tv[i + 1]))

\* C9 witness: an index access at the size of a snapshot has raised
\* IndexOutOfRange while the snapshot holds a deleted row.
OutOfRangeRaised ==
    /\ ret = Thrown("IndexOutOfRange")
    /\ \E h \in Handles :
          /\ ~results[h].live
          /\ \E i \in DOMAIN results[h].tv : Deleted(results[h].tv[i])

\* C10: derivation never changes the receiver: a host call (any step that
\* is not a write to the table) leaves the query, ordering, liveness and
\* rows of every existing instance, and so its length and what it reads at
\* every index, as they were; it adds at most one instance, and none when
\* it raises.
DerivationLeavesReceiver ==
    [][(table' = table /\ vals' = vals)
       => /\ \A h \in Handles :
               /\ h \in DOMAIN results'
               /\ results'[h] = results[h]
               /\ Size(results'[h], table', vals') = Size(results[h], table, vals)
          /\ Len(results') <= Len(results) + 1
          /\ ret'.status # "ok" => results' = results
          /\ Len(results') = Len(results) + 1 => ret' = Returned("results", Len(results'))]_vars

\* C10 witness: a derivation has raised SchemaError while the host holds a
\* sorted Results over a table of two rows.
DerivationRaised ==
    /\ ret = Thrown("SchemaError")
    /\ Len(table) = 2
    /\ \E h \in Handles : made[h] = "sorted"

\* Every sorted(p) and sorted(p, flag) call.
SingleKeyCalls ==
    {<<Str(p)>> : p \in PropertyNames}
    \cup {<<Str(p), Bool(f)>> : p \in PropertyNames, f \in BOOLEAN}

\* C11: sort idempotence: r.sorted(p, true).sorted(p, true) has the
\* membership of r.sorted(p, true) and the same row at every position (and
\* so for every other single-key and list call).
SortIdempotent ==
    \A h \in Handles :
        \A c \in SingleKeyCalls \cup {ListCall(d) : d \in DescriptorLists} :
            LET once == SortedBy(results[h], c)
            IN  Ids(SortedBy(once, c)) = Ids(once)

\* C11 witness: two Results sorted by name with the flag true, the second
\* derived after the first, over three rows of two names.
SortedTwice ==
    \E h1, h2 \in Handles :
        /\ h1 < h2
        /\ made[h1] = "sorted" /\ made[h2] = "sorted"
        /\ results[h1].ordering = [columns |-> <<1>>, ascending |-> <<FALSE>>]
        /\ results[h2] = results[h1]
        /\ Len(table) = 3
        /\ vals[1].name = "a" /\ vals[2].name = "b" /\ vals[3].name = "a"
        /\ Ids(results[h2]) = <<2, 1, 3>>

\* C12: table order by default: a Results constructed live from the object
\* type (empty predicate, no ordering) has the size of the table and reads
\* the i-th row of the table at every index i below it.
TableOrderByDefault ==
    \A h \in Handles :
        made[h] = "create"
        => /\ Size(results[h], table, vals) = Len(table)
           /\ \A i \in 0..(Len(table) - 1) :
                GetIndex(results[h], i, table, vals) = Returned("row", table[i + 1])

\* C12 witness: a live Results of the type over a table whose first row was
\* deleted, so that position 0 holds row 2, which an index access returned.
TableOrderRead ==
    /\ \E h \in Handles : made[h] = "create"
    /\ table = <<2>>
    /\ ret = Returned("row", 2)

\* Descriptor lists of one or two pairs that name a property the schema
\* does not have: alone, in first position and in second position.
BadDescriptorLists ==
    { << <<"bogus", FALSE>> >>,
      << <<"bogus", TRUE>>, <<"name", FALSE>> >>,
      << <<"name", FALSE>>, <<"bogus", FALSE>> >>,
      << <<"city", TRUE>>, <<"bogus", TRUE>> >>,
      << <<"bogus", FALSE>>, <<"bogus", TRUE>> >> }

\* Predicate texts that refer to such a property, in either clause.
BadPredicateTexts ==
    { <<"bogus", "==", "a">>,
      <<"bogus", "==", "a", "AND", "name", "==", "a">>,
      <<"name", "==", "a", "AND", "bogus", "==", "a">> }

\* C13: unknown properties fail at the call: sorted with a descriptor (at any
\* position of the list) and filtered with a predicate that names a property
\* the schema does not have raise SchemaError; so every column of every
\* ordering is a column of the schema, and reading a length or an index
\* never fails but for the index being out of range.
UnknownPropertyFailsAtCall ==
    \A h \in Handles :
        LET r == results[h]
        IN  /\ \A d \in BadDescriptorLists :
                 Sorted(r, 1, ListCall(d)) = Failed("SchemaError")
            /\ Sorted(r, 1, <<Str("bogus")>>) = Failed("SchemaError")
            /\ \A f \in BOOLEAN :
                 Sorted(r, 2, <<Str("bogus"), Bool(f)>>) = Failed("SchemaError")
            /\ \A A \in BadPredicateTexts :
                 Filtered(r, 1, <<Text(A)>>, table, vals) = Failed("SchemaError")
            /\ \A k \in DOMAIN r.ordering.columns :
                 r.ordering.columns[k] \in DOMAIN Properties
            /\ GetLength(r, table, vals).status = "ok"
            /\ \A i \in 0..nextRow :
                 GetIndex(r, i, table, vals).status \in {"ok", "IndexOutOfRange"}

\* C13 witness: a call has raised SchemaError while the host holds a
\* filtered Results over a table with a row.
SchemaErrorRaised ==
    /\ ret = Thrown("SchemaError")
    /\ Len(table) = 1
    /\ \E h \in Handles : made[h] = "filtered"

\* C14: constructing from a type name the schema does not have raises
\* TypeNotFound and adds no Results; constructing from one it has returns a
\* new Results that is live exactly when live was asked and that reads the
\* rows of the type's table.
ConstructFromType ==
    [][\A live \in BOOLEAN :
         /\ CallCreate("DoesNotExist", live)
              => ret' = Thrown("TypeNotFound") /\ results' = results
         /\ CallCreate("Person", live)
              => LET n == Len(results')
                 IN  /\ n = Len(results) + 1
                     /\ ret' = Returned("results", n)
                     /\ results'[n].live = live
                     /\ View(results'[n], table', vals')
                        = [i \in DOMAIN table |-> Returned("row", table[i])]]_vars

\* C14 witness: a construction has raised TypeNotFound while the host holds
\* a Results constructed live and one constructed with live = false over a
\* table with rows.
TypeNotFoundRaised ==
    /\ ret = Thrown("TypeNotFound")
    /\ table # <<>>
    /\ \E h1, h2 \in Handles :
          /\ made[h1] = "create" /\ results[h1].live
          /\ made[h2] = "create_static" /\ ~results[h2].live

\* C15: sorted called with an empty descriptor list raises ArgumentError
\* on every receiver and returns no Results.
EmptyDescriptorListRaises ==
    [][\A h \in Handles :
         /\ Sorted(results[h], 1, <<Arr(<<>>)>>) = Failed("ArgumentError")
         /\ CallSorted(h, <<Arr(<<>>)>>)
              => ret' = Thrown("ArgumentError") /\ results' = results]_vars

\* C15 witness: a call has raised ArgumentError while the host holds a
\* snapshot, on which sorted with an empty list raises it.
ArgumentErrorRaised ==
    /\ ret = Thrown("ArgumentError")
    /\ \E h \in Handles :
          /\ made[h] = "snapshot"
          /\ Sorted(results[h], 1, <<Arr(<<>>)>>) = Failed("ArgumentError")

\* The sort calls of the permutation claims: every single-key call and two
\* two-key lists.
PermutationCalls ==
    SingleKeyCalls
    \cup {ListCall(<< <<"name", TRUE>>, <<"city", FALSE>> >>),
          ListCall(<< <<"city", FALSE>>, <<"name", FALSE>> >>)}

\* C16 as stated: for every Results r and valid descriptor d, r.sorted(d)
\* has the size of r and exactly the rows of r, each once.
SortPermutesReceiver ==
    \A h \in Handles : \A c \in PermutationCalls :
        LET r == results[h]
            s == Ids(SortedBy(r, c))
            ir == Ids(r)
        IN  /\ Len(s) = Len(ir)
            /\ Range(s) = Range(ir)
            /\ Cardinality(Range(s)) = Len(s)

\* C16: sorting is a permutation of the match set: r.sorted(d) holds
\* exactly the rows of the table that satisfy r's query now, each once; for
\* a live r these are the rows of r and the sizes are equal.
SortPermutesMatchSet ==
    \A h \in Handles : \A c \in PermutationCalls :
        LET r == results[h]
            sorted == SortedBy(r, c)
            s == Ids(sorted)
            ir == Ids(r)
        IN  /\ Range(s) = {id \in RowIds(table) : Matches(r.query, vals[id])}
            /\ Cardinality(Range(s)) = Len(s)
            /\ Size(sorted, table, vals) = Len(s)
            /\ r.live => /\ Size(sorted, table, vals) = Size(r, table, vals)
                         /\ Range(s) = Range(ir)

\* C16 witness: a sorted Results over a filtered query reads one of the two
\* rows of the table, next to a snapshot that has lost or missed a row.
SortedMatchSet ==
    \E hs, ho \in Handles :
        /\ made[ho] = "sorted"
        /\ Len(table) = 2
        /\ Len(Ids(results[ho])) = 1
        /\ ~results[hs].live
        /\ Range(Ids(results[hs])) # RowIds(table)

\* C17: derived views are live regardless of the receiver: a Results
\* returned by filtered() or sorted() is live, also when the receiver is a
\* snapshot; so when a row is inserted its size() grows by 1 if the row
\* matches its query and stays otherwise, while the size() of every
\* snapshot stays as it was.
DerivedViewsLive ==
    [][/\ \A h \in Handles :
            made[h] \in {"filtered", "sorted"} => results[h].live
       /\ \A h \in Handles :
            /\ \A c \in FilterCalls :
                  CallFiltered(h, c) /\ ret'.status = "ok"
                  => results'[Len(results')].live
            /\ \A c \in SortCalls :
                  CallSorted(h, c) /\ ret'.status = "ok"
                  => results'[Len(results')].live
       /\ \A name, city \in Values :
            InsertRow(name, city)
            => \A h \in Handles :
                 LET r == results[h]
                     before == Size(r, table, vals)
                     after == Size(r, table', vals')
                     row == [name |-> name, city |-> city]
                 IN  /\ made[h] \in {"filtered", "sorted"}
                          => after = before + (IF Matches(r.query, row) THEN 1 ELSE 0)
                     /\ ~r.live => after = before]_vars

\* C17 witness: a Results derived by filtered() or sorted() from a snapshot
\* (every Results made before it is one) counts a row inserted since, which
\* the snapshot does not.
DerivedFromSnapshotGrew ==
    \E hd \in Handles :
        /\ hd > 1
        /\ made[hd] \in {"filtered", "sorted"}
        /\ results[hd].live
        /\ \A hs \in 1..(hd - 1) :
              /\ ~results[hs].live
              /\ results[hs].tv = <<>>
        /\ Size(results[hd], table, vals) = 1
        /\ Len(table) = 1

\* The descriptor lists of an earlier sort and of the sort that replaces it.
ReplacedLists ==
    { << <<"name", FALSE>> >>,
      << <<"city", TRUE>> >>,
      << <<"name", FALSE>>, <<"city", TRUE>> >>,
      << <<"city", FALSE>>, <<"name", TRUE>> >> }

ReplacingLists ==
    {d \in DescriptorLists : Len(d) = 1}
    \cup { << <<"name", TRUE>>, <<"city", FALSE>> >>,
           << <<"city", FALSE>>, <<"name", FALSE>> >> }

\* C18: a new sort replaces an earlier one: r.sorted(d1).sorted(d2) reads
\* the same row at every position as r.sorted(d2), and rows that tie on d2
\* are in table order, whatever order d1 had given them.
SortReplaces ==
    \A h \in Handles : \A d1 \in ReplacedLists : \A d2 \in ReplacingLists :
        LET r == results[h]
            s12 == Ids(SortedBy(SortedBy(r, ListCall(d1)), ListCall(d2)))
            s2 == Ids(SortedBy(r, ListCall(d2)))
        IN  /\ s12 = s2
            /\ \A i, j \in DOMAIN s12 :
                 i < j /\ Tied(s12[i], s12[j], d2) => s12[i] < s12[j]

\* C18 witness: a Results sorted by name after an earlier sort by (name
\* ascending, city descending) reads two rows of one name in table order,
\* which the earlier sort reads the other way round.
SortedAgain ==
    \E h1, h2 \in Handles :
        /\ h1 < h2
        /\ made[h1] = "sorted" /\ made[h2] = "sorted"
        /\ results[h1].ordering = [columns |-> <<1, 2>>, ascending |-> <<TRUE, FALSE>>]
        /\ results[h2].ordering = [columns |-> <<1>>, ascending |-> <<TRUE>>]
        /\ results[h1].query = results[h2].query
        /\ Len(table) = 2
        /\ vals[1].name = vals[2].name
        /\ Ids(results[h1]) = <<2, 1>>
        /\ Ids(results[h2]) = <<1, 2>>

====
